---------------------------- MODULE Spec2Model ----------------------------
(***************************************************************************)
(* Model of check-imports.py, the import checker for TypeScript projects.  *)
(*                                                                         *)
(* A text (a Python str) is a sequence of lexemes.  A lexeme is either one *)
(* character (" ", "\n", "{", "}", ",", "*", "'", ";", "(", ")", ".", "$", *)
(* or a one-letter identifier character such as "A") or one of the words   *)
(* "import", "from", "as", "__side_effect__", which the regular            *)
(* expressions and string operations of the program only ever match as a   *)
(* whole.  The regular expressions are translated position by position,    *)
(* with the greedy / lazy choices Python's re module makes.                *)
(***************************************************************************)
EXTENDS Naturals, Sequences, FiniteSets

(***************************************************************************)
(* Character classes of Python's re module.                                *)
(***************************************************************************)
\* \w : letters, digits, underscore
WordChars == {"import", "from", "as", "__side_effect__", "A", "B", "X", "m", "n", "p"}
\* \s
SpaceChars == {" ", "\n"}
\* ['"]
QuoteChars == {"'", "\""}

IsWord(c) == c \in WordChars
IsSpace(c) == c \in SpaceChars

\* s[i], or "" (no character) outside the string
At(s, i) == IF i \in 1..Len(s) THEN s[i] ELSE ""

\* the position after a greedy \s* started at p
RECURSIVE SkipSpace(_, _)
SkipSpace(s, p) == IF IsSpace(At(s, p)) THEN SkipSpace(s, p + 1) ELSE p

\* the position after a greedy \w* started at p
RECURSIVE SkipWord(_, _)
SkipWord(s, p) == IF IsWord(At(s, p)) THEN SkipWord(s, p + 1) ELSE p

\* the first position >= p holding a character of C, 0 when there is none
FindChar(s, p, C) ==
    LET S == {i \in p..Len(s) : s[i] \in C}
    IN  IF S = {} THEN 0 ELSE CHOOSE i \in S : \A j \in S : i <= j

\* whether sep occurs in s at position i
OccursAt(s, sep, i) ==
    /\ i >= 1
    /\ i + Len(sep) - 1 <= Len(s)
    /\ \A k \in 1..Len(sep) : s[i + k - 1] = sep[k]

\* str.find: the first position of sep in s, 0 when there is none
Find(s, sep) ==
    LET S == {i \in 1..Len(s) : OccursAt(s, sep, i)}
    IN  IF S = {} THEN 0 ELSE CHOOSE i \in S : \A j \in S : i <= j

\* str.split(sep)
RECURSIVE Split(_, _)
Split(s, sep) ==
    LET i == Find(s, sep)
    IN  IF i = 0 THEN <<s>>
        ELSE <<SubSeq(s, 1, i - 1)>> \o Split(SubSeq(s, i + Len(sep), Len(s)), sep)

\* str.strip()
Strip(s) ==
    LET S == {i \in 1..Len(s) : ~IsSpace(s[i])}
    IN  IF S = {} THEN <<>>
        ELSE SubSeq(s, CHOOSE i \in S : \A j \in S : i <= j,
                       CHOOSE i \in S : \A j \in S : i >= j)

\* str.startswith(prefix)
StartsWith(s, prefix) == OccursAt(s, prefix, 1)

(***************************************************************************)
(* Regular expression matches: [ok, g1, g2, end], end the position after   *)
(* the match.                                                              *)
(***************************************************************************)
NoMatch == [ok |-> FALSE, g1 |-> <<>>, g2 |-> <<>>, end |-> 0]

\* ['"]([^'"]+)['"] at u
QuotedAt(s, u) ==
    LET v == FindChar(s, u + 1, QuoteChars)
    IN  IF At(s, u) \in QuoteChars /\ v > u + 1
        THEN [ok |-> TRUE, g1 |-> <<>>, g2 |-> SubSeq(s, u + 1, v - 1), end |-> v + 1]
        ELSE NoMatch

\* from\s+['"]([^'"]+)['"] at f
FromSpaceQuoted(s, f) ==
    LET u == SkipSpace(s, f + 1)
    IN  IF At(s, f) = "from" /\ u > f + 1 THEN QuotedAt(s, u) ELSE NoMatch

\* import\s*\{\s*([^}]+)\s*\}\s*from\s*['"]([^'"]+)['"] at p
named_pattern(s, p) ==
    LET q  == SkipSpace(s, p + 1)
        r  == FindChar(s, q + 1, {"}"})
        q1 == SkipSpace(s, q + 1)
        t  == SkipSpace(s, r + 1)
        Q  == QuotedAt(s, SkipSpace(s, t + 1))
    IN  IF /\ At(s, p) = "import"
           /\ At(s, q) = "{"
           /\ r > q + 1
           /\ At(s, t) = "from"
           /\ Q.ok
        THEN [Q EXCEPT !.g1 = SubSeq(s, IF q1 < r THEN q1 ELSE r - 1, r - 1)]
        ELSE NoMatch

\* import\s*\*\s*as\s+(\w+)\s+from\s+['"]([^'"]+)['"] at p
namespace_pattern(s, p) ==
    LET q == SkipSpace(s, p + 1)
        a == SkipSpace(s, q + 1)
        w == SkipSpace(s, a + 1)
        e == SkipWord(s, w)
        f == SkipSpace(s, e)
        Q == FromSpaceQuoted(s, f)
    IN  IF /\ At(s, p) = "import"
           /\ At(s, q) = "*"
           /\ At(s, a) = "as"
           /\ w > a + 1
           /\ e > w
           /\ f > e
           /\ Q.ok
        THEN [Q EXCEPT !.g1 = SubSeq(s, w, e - 1)]
        ELSE NoMatch

\* import\s+(\w+)\s+from\s+['"]([^'"]+)['"] at p
default_pattern(s, p) ==
    LET w == SkipSpace(s, p + 1)
        e == SkipWord(s, w)
        f == SkipSpace(s, e)
        Q == FromSpaceQuoted(s, f)
    IN  IF /\ At(s, p) = "import"
           /\ w > p + 1
           /\ e > w
           /\ f > e
           /\ Q.ok
        THEN [Q EXCEPT !.g1 = SubSeq(s, w, e - 1)]
        ELSE NoMatch

\* import\s+['"]([^'"]+)['"] at p
side_effect_pattern(s, p) ==
    LET u == SkipSpace(s, p + 1)
    IN  IF At(s, p) = "import" /\ u > p + 1 THEN QuotedAt(s, u) ELSE NoMatch

\* an optional ; after a match
OptSemicolon(s, m) ==
    IF m.ok /\ At(s, m.end) = ";" THEN [m EXCEPT !.end = m.end + 1] ELSE m

\* import\s+.*?from\s+['"][^'"]+['"];? at p : the lazy .*? stops at the first
\* "from" that the rest of the pattern accepts, and . does not match "\n"
strip_from_pattern(s, p) ==
    LET a  == SkipSpace(s, p + 1)
        nl == FindChar(s, a, {"\n"})
        hi == IF nl = 0 THEN Len(s) ELSE nl
        F  == {f \in a..hi : FromSpaceQuoted(s, f).ok}
    IN  IF At(s, p) = "import" /\ a > p + 1 /\ F # {}
        THEN OptSemicolon(s, FromSpaceQuoted(s, CHOOSE f \in F : \A g \in F : f <= g))
        ELSE NoMatch

\* import\s+['"][^'"]+['"];? at p
strip_bare_pattern(s, p) == OptSemicolon(s, side_effect_pattern(s, p))

\* re.finditer(named_pattern, s) from position p on: the matches, left to right
RECURSIVE NamedMatches(_, _)
NamedMatches(s, p) ==
    IF p > Len(s) THEN <<>>
    ELSE LET m == named_pattern(s, p)
         IN  IF m.ok THEN <<m>> \o NamedMatches(s, m.end) ELSE NamedMatches(s, p + 1)

\* re.finditer(namespace_pattern, s) from position p on
RECURSIVE NamespaceMatches(_, _)
NamespaceMatches(s, p) ==
    IF p > Len(s) THEN <<>>
    ELSE LET m == namespace_pattern(s, p)
         IN  IF m.ok THEN <<m>> \o NamespaceMatches(s, m.end)
             ELSE NamespaceMatches(s, p + 1)

\* re.finditer(default_pattern, s) from position p on
RECURSIVE DefaultMatches(_, _)
DefaultMatches(s, p) ==
    IF p > Len(s) THEN <<>>
    ELSE LET m == default_pattern(s, p)
         IN  IF m.ok THEN <<m>> \o DefaultMatches(s, m.end) ELSE DefaultMatches(s, p + 1)

\* re.finditer(side_effect_pattern, s) from position p on
RECURSIVE SideEffectMatches(_, _)
SideEffectMatches(s, p) ==
    IF p > Len(s) THEN <<>>
    ELSE LET m == side_effect_pattern(s, p)
         IN  IF m.ok THEN <<m>> \o SideEffectMatches(s, m.end)
             ELSE SideEffectMatches(s, p + 1)

\* re.sub(r'import\s+.*?from\s+[\'"][^\'"]+[\'"];?', '', s) from position p on
RECURSIVE StripFromImports(_, _)
StripFromImports(s, p) ==
    IF p > Len(s) THEN <<>>
    ELSE LET m == strip_from_pattern(s, p)
         IN  IF m.ok THEN StripFromImports(s, m.end)
             ELSE <<s[p]>> \o StripFromImports(s, p + 1)

\* re.sub(r'import\s+[\'"][^\'"]+[\'"];?', '', s) from position p on
RECURSIVE StripBareImports(_, _)
StripBareImports(s, p) ==
    IF p > Len(s) THEN <<>>
    ELSE LET m == strip_bare_pattern(s, p)
         IN  IF m.ok THEN StripBareImports(s, m.end)
             ELSE <<s[p]>> \o StripBareImports(s, p + 1)

\* \b at position i of s (between s[i-1] and s[i])
WordBoundary(s, i) == IsWord(At(s, i - 1)) # IsWord(At(s, i))

\* re.search(rf'\b{re.escape(name)}', s): the closing \b left out
SearchWord_NoEndBoundary(name, s) ==
    \E i \in 1..(Len(s) + 1) : OccursAt(s, name, i) /\ WordBoundary(s, i)

\* re.search(rf'\b{re.escape(name)}\b', s)
SearchWord(name, s) ==
    \E i \in 1..(Len(s) + 1) :
        /\ OccursAt(s, name, i)
        /\ WordBoundary(s, i)
        /\ WordBoundary(s, i + Len(name))

(***************************************************************************)
(* Dict[str, List[str]] in insertion order: a sequence of [module, items]  *)
(* with pairwise different modules.                                        *)
(***************************************************************************)
HasKey(d, module) == \E i \in 1..Len(d) : d[i].module = module

\* d[module], [] for a missing key
Get(d, module) ==
    IF HasKey(d, module)
    THEN d[CHOOSE i \in 1..Len(d) : d[i].module = module].items
    ELSE <<>>

\* imports[module].extend(items) on a defaultdict(list)
Extend(d, module, items) ==
    IF HasKey(d, module)
    THEN [i \in 1..Len(d) |->
            IF d[i].module = module THEN [d[i] EXCEPT !.items = @ \o items] ELSE d[i]]
    ELSE Append(d, [module |-> module, items |-> items])

SideEffect == <<"__side_effect__">>
AsSep == <<" ", "as", " ">>
StarAs == <<"*", " ", "as", " ">>

\* [item.strip().split(' as ')[0].strip() for item in imported_items.split(',')]
NamedItems(imported_items) ==
    LET parts == Split(imported_items, <<",">>)
    IN  [i \in 1..Len(parts) |-> Strip(Split(Strip(parts[i]), AsSep)[1])]

\* the items one match of the pass `form` adds
MatchItems(form, m) ==
    CASE form = "named"     -> NamedItems(m.g1)
      [] form = "namespace" -> <<StarAs \o m.g1>>
      [] form = "default"   -> <<m.g1>>
      [] form = "side"      -> <<SideEffect>>

\* one for-loop of extract_imports: the matches ms added to d in order
RECURSIVE AddMatches(_, _, _, _)
AddMatches(d, form, ms, i) ==
    IF i > Len(ms) THEN d
    ELSE AddMatches(Extend(d, ms[i].g2, MatchItems(form, ms[i])), form, ms, i + 1)

\* the default pass run before the namespace pass
extract_imports_DefaultFirst(text) ==
    LET d1 == AddMatches(<<>>, "named", NamedMatches(text, 1), 1)
        d2 == AddMatches(d1, "default", DefaultMatches(text, 1), 1)
        d3 == AddMatches(d2, "namespace", NamespaceMatches(text, 1), 1)
    IN  AddMatches(d3, "side", SideEffectMatches(text, 1), 1)

extract_imports(text) ==
    LET d1 == AddMatches(<<>>, "named", NamedMatches(text, 1), 1)
        d2 == AddMatches(d1, "namespace", NamespaceMatches(text, 1), 1)
        d3 == AddMatches(d2, "default", DefaultMatches(text, 1), 1)
    IN  AddMatches(d3, "side", SideEffectMatches(text, 1), 1)

\* f"{item} from '{module}'"
Describe(item, module) == item \o <<" ", "from", " ", "'">> \o module \o <<"'">>

\* the text in which find_unused_imports looks for uses
content_without_imports(text) == StripBareImports(StripFromImports(text, 1), 1)

\* the side-effect sentinel searched for like any other item
IsUnusedItem_NoSkip(item, searched) ==
    IF StartsWith(item, StarAs)
    THEN ~SearchWord(Split(item, StarAs)[2], searched)
    ELSE ~SearchWord(item, searched)

\* whether find_unused_imports appends item of module
IsUnusedItem(item, searched) ==
    IF item = SideEffect THEN FALSE
    ELSE IF StartsWith(item, StarAs)
         THEN ~SearchWord(Split(item, StarAs)[2], searched)
         ELSE ~SearchWord(item, searched)

\* the inner loop of find_unused_imports over items[i..]
RECURSIVE UnusedOfItems(_, _, _, _)
UnusedOfItems(module, items, i, searched) ==
    IF i > Len(items) THEN <<>>
    ELSE (IF IsUnusedItem(items[i], searched)
          THEN <<Describe(items[i], module)>> ELSE <<>>)
         \o UnusedOfItems(module, items, i + 1, searched)

\* the outer loop of find_unused_imports over imports[k..]
RECURSIVE UnusedOfModules(_, _, _)
UnusedOfModules(imports_, k, searched) ==
    IF k > Len(imports_) THEN <<>>
    ELSE UnusedOfItems(imports_[k].module, imports_[k].items, 1, searched)
         \o UnusedOfModules(imports_, k + 1, searched)

find_unused_imports(text, imports_) ==
    UnusedOfModules(imports_, 1, content_without_imports(text))

\* the item compared with the whole list instead of the items seen so far
IsDuplicateAt_WholeList(items, i) ==
    /\ \E j \in 1..Len(items) : j # i /\ items[j] = items[i]
    /\ items[i] # SideEffect

\* whether find_duplicate_imports appends items[i]: item in seen and not side effect
IsDuplicateAt(items, i) ==
    /\ \E j \in 1..(i - 1) : items[j] = items[i]
    /\ items[i] # SideEffect

\* the inner loop of find_duplicate_imports over items[i..]
RECURSIVE DuplicatesOfItems(_, _, _)
DuplicatesOfItems(module, items, i) ==
    IF i > Len(items) THEN <<>>
    ELSE (IF IsDuplicateAt(items, i) THEN <<Describe(items[i], module)>> ELSE <<>>)
         \o DuplicatesOfItems(module, items, i + 1)

\* the outer loop of find_duplicate_imports over imports[k..]
RECURSIVE DuplicatesOfModules(_, _)
DuplicatesOfModules(imports_, k) ==
    IF k > Len(imports_) THEN <<>>
    ELSE DuplicatesOfItems(imports_[k].module, imports_[k].items, 1)
         \o DuplicatesOfModules(imports_, k + 1)

find_duplicate_imports(imports_) == DuplicatesOfModules(imports_, 1)

(***************************************************************************)
(* Input files.  A file is a sequence of import declarations followed by a *)
(* body; each declaration is written out in full as text, and what it      *)
(* declares (form, module, binding texts in the order written) is kept     *)
(* beside the text.                                                        *)
(***************************************************************************)
Stmt(form, module, names, text) ==
    [form |-> form, module |-> module, names |-> names, text |-> text]

FromM == <<" ", "from", " ", "'", "m", "'", ";", "\n">>
FromN == <<" ", "from", " ", "'", "n", "'", ";", "\n">>

Decls == <<
    \* import { A } from 'm';
    Stmt("named", <<"m">>, << <<"A">> >>,
         <<"import", " ", "{", " ", "A", " ", "}">> \o FromM),
    \* import { A, B } from 'm';
    Stmt("named", <<"m">>, << <<"A">>, <<"B">> >>,
         <<"import", " ", "{", " ", "A", ",", " ", "B", " ", "}">> \o FromM),
    \* import{ A } from 'm';
    Stmt("named", <<"m">>, << <<"A">> >>,
         <<"import", "{", " ", "A", " ", "}">> \o FromM),
    \* import {
    \* B
    \* } from 'm';
    Stmt("named", <<"m">>, << <<"B">> >>,
         <<"import", " ", "{", "\n", "B", "\n", "}">> \o FromM),
    \* import { A, } from 'm';
    Stmt("named", <<"m">>, << <<"A">>, <<>> >>,
         <<"import", " ", "{", " ", "A", ",", " ", "}">> \o FromM),
    \* import { A as B } from 'n';
    Stmt("named", <<"n">>, << <<"A">> >>,
         <<"import", " ", "{", " ", "A", " ", "as", " ", "B", " ", "}">> \o FromN),
    \* import * as X from 'm';
    Stmt("namespace", <<"m">>, << <<"*", " ", "as", " ", "X">> >>,
         <<"import", " ", "*", " ", "as", " ", "X">> \o FromM),
    \* import A from 'm';
    Stmt("default", <<"m">>, << <<"A">> >>, <<"import", " ", "A">> \o FromM),
    \* import B from 'n';
    Stmt("default", <<"n">>, << <<"B">> >>, <<"import", " ", "B">> \o FromN),
    \* import 'p';
    Stmt("side", <<"p">>, << <<"__side_effect__">> >>,
         <<"import", " ", "'", "p", "'", ";", "\n">>),
    \* import "m";
    Stmt("side", <<"m">>, << <<"__side_effect__">> >>,
         <<"import", " ", "\"", "m", "\"", ";", "\n">>)
>>

\* the code after the imports
Bodies == {
    <<>>,
    <<"A">>,
    <<"A", "B">>,
    <<"B", "A", ";">>,
    <<"(", "A", ")">>,
    <<"X", ".", "B">>,
    <<"X", ".", "A", "B">>,
    <<"$", "B", " ", "X", "A">>,
    <<"A", "(", "B", ",", "X", ")">>
}

\* most declarations in a file
MaxDecls == 2
\* most items in a module's list of an import map
MaxItems == 3
\* most files in a scanned directory
MaxFiles == 2

SeqsUpTo(S, n) == UNION {[1..k -> S] : k \in 0..n}

RECURSIVE Concat(_, _)
Concat(ss, i) == IF i > Len(ss) THEN <<>> ELSE ss[i] \o Concat(ss, i + 1)

\* the text of the file with the declarations ds (indices into Decls) and body b
Render(ds, b) == Concat([i \in 1..Len(ds) |-> Decls[ds[i]].text], 1) \o b

\* the files of the scanned directory: what read_text gives for each
RunContents == {
    Render(<<1>>, <<"A">>),
    Render(<<1>>, <<>>),
    Render(<<1, 1>>, <<"A">>),
    Render(<<1, 1>>, <<>>),
    Render(<<10>>, <<>>)
}

FileChoices ==
    {[readable |-> TRUE, content |-> c] : c \in RunContents}
        \cup {[readable |-> FALSE, content |-> <<>>]}

\* the import maps handed to find_duplicate_imports
MapModules == {<<"m">>, <<"n">>}
MapItems == {<<"A">>, <<"B">>, SideEffect}
ImportMaps ==
    {d \in SeqsUpTo([module : MapModules, items : SeqsUpTo(MapItems, MaxItems)], 2) :
        \A i, j \in 1..Len(d) : i # j => d[i].module # d[j].module}

(***************************************************************************)
(* State.                                                                  *)
(***************************************************************************)
VARIABLES
    \* one file under check_file: what it declares and its body, its text,
    \* and the locals of check_file
    decls, body, content, imports, unused, duplicates, fpc,
    \* a run of main: the globbed files, the loop index of scan_directory,
    \* self.results, the locals total_unused / total_duplicates, the two
    \* written artifacts, whether an exception left main, the exit status
    ts_files, idx, unused_imports, duplicate_imports, stats,
    total_unused, total_duplicates, report_file, script_file,
    raised, exit_status, pc,
    \* what check_file returned for each file so far
    returned

fileVars == <<decls, body, content, imports, unused, duplicates, fpc>>
runVars == <<ts_files, idx, unused_imports, duplicate_imports, stats,
             total_unused, total_duplicates, report_file, script_file,
             raised, exit_status, pc, returned>>
vars == <<fileVars, runVars>>

FileIdle ==
    /\ decls = <<>> /\ body = <<>> /\ content = <<>>
    /\ imports = <<>> /\ unused = <<>> /\ duplicates = <<>>

RunIdle ==
    /\ ts_files = <<>> /\ idx = 1
    /\ unused_imports = <<>> /\ duplicate_imports = <<>> /\ stats = <<>>
    /\ total_unused = 0 /\ total_duplicates = 0
    /\ report_file = "absent" /\ script_file = "absent"
    /\ raised = FALSE /\ exit_status = 0
    /\ returned = <<>>

(***************************************************************************)
(* check_file on one file, pass by pass.                                   *)
(***************************************************************************)
InitFile ==
    /\ decls \in SeqsUpTo(1..Len(Decls), MaxDecls)
    /\ body \in Bodies
    /\ content = Render(decls, body)
    /\ imports = <<>> /\ unused = <<>> /\ duplicates = <<>>
    /\ fpc = "read"
    /\ RunIdle /\ pc = "idle"

ExtractImports ==
    /\ fpc = "read"
    /\ imports' = extract_imports(content)
    /\ fpc' = "extracted"
    /\ UNCHANGED <<decls, body, content, unused, duplicates, runVars>>

FindUnused ==
    /\ fpc = "extracted"
    /\ unused' = find_unused_imports(content, imports)
    /\ fpc' = "unused"
    /\ UNCHANGED <<decls, body, content, imports, duplicates, runVars>>

FindDuplicates ==
    /\ fpc = "unused"
    /\ duplicates' = find_duplicate_imports(imports)
    /\ fpc' = "done"
    /\ UNCHANGED <<decls, body, content, imports, unused, runVars>>

NextFile == ExtractImports \/ FindUnused \/ FindDuplicates
SpecFile == InitFile /\ [][NextFile]_vars

(***************************************************************************)
(* find_duplicate_imports on an arbitrary import map.                      *)
(***************************************************************************)
InitMap ==
    /\ imports \in ImportMaps
    /\ decls = <<>> /\ body = <<>> /\ content = <<>>
    /\ unused = <<>> /\ duplicates = <<>>
    /\ fpc = "map"
    /\ RunIdle /\ pc = "idle"

FindDuplicatesOfMap ==
    /\ fpc = "map"
    /\ duplicates' = find_duplicate_imports(imports)
    /\ fpc' = "mapdone"
    /\ UNCHANGED <<decls, body, content, imports, unused, runVars>>

NextMap == FindDuplicatesOfMap
SpecMap == InitMap /\ [][NextMap]_vars

(***************************************************************************)
(* A run of main.                                                          *)
(***************************************************************************)
Init ==
    /\ ts_files \in SeqsUpTo(FileChoices, MaxFiles)
    /\ idx = 1
    /\ unused_imports = <<>> /\ duplicate_imports = <<>> /\ stats = <<>>
    /\ total_unused = 0 /\ total_duplicates = 0
    /\ report_file = "absent" /\ script_file = "absent"
    /\ raised = FALSE /\ exit_status = 0
    /\ returned = <<>>
    /\ pc = "scan"
    /\ FileIdle /\ fpc = "idle"

\* if unused: self.results['unused_imports'].append({'file': ..., 'unused': unused})
RecordUnused(list, file, found) ==
    IF found # <<>> THEN Append(list, [file |-> file, unused |-> found]) ELSE list

RecordDuplicates_Always(list, file, found) ==
    Append(list, [file |-> file, duplicates |-> found])

\* if duplicates: self.results['duplicate_imports'].append({...})
RecordDuplicates(list, file, found) ==
    IF found # <<>> THEN Append(list, [file |-> file, duplicates |-> found]) ELSE list

\* what check_file returns for a file
CheckResult(f) ==
    IF ~f.readable THEN [unused |-> <<>>, duplicates |-> <<>>]
    ELSE LET found == extract_imports(f.content)
         IN  [unused |-> find_unused_imports(f.content, found),
              duplicates |-> find_duplicate_imports(found)]

\* one iteration of the loop of scan_directory: check_file and the two sums
CheckFile ==
    /\ pc = "scan"
    /\ idx <= Len(ts_files)
    /\ LET r == CheckResult(ts_files[idx])
       IN  /\ unused_imports' =
                IF ts_files[idx].readable
                THEN RecordUnused(unused_imports, idx, r.unused)
                ELSE unused_imports
           /\ duplicate_imports' =
                IF ts_files[idx].readable
                THEN RecordDuplicates(duplicate_imports, idx, r.duplicates)
                ELSE duplicate_imports
           /\ total_unused' = total_unused + Len(r.unused)
           /\ total_duplicates' = total_duplicates + Len(r.duplicates)
           /\ returned' = Append(returned, r)
    /\ idx' = idx + 1
    /\ UNCHANGED <<ts_files, stats, report_file, script_file, raised, exit_status,
                   pc, fileVars>>

\* the end of scan_directory: self.results['stats'] = {...}
FinishScan ==
    /\ pc = "scan"
    /\ idx > Len(ts_files)
    /\ stats' = [total_files |-> Len(ts_files),
                 files_with_unused |->
                    Len(SelectSeq(unused_imports, LAMBDA r : r.unused # <<>>)),
                 files_with_duplicates |-> Len(duplicate_imports),
                 total_unused_imports |-> total_unused,
                 total_duplicate_imports |-> total_duplicates]
    /\ pc' = "report"
    /\ UNCHANGED <<ts_files, idx, unused_imports, duplicate_imports, total_unused,
                   total_duplicates, report_file, script_file, raised, exit_status,
                   returned, fileVars>>

\* what a write of an artifact can do: succeed, fail in open (nothing is
\* written), or fail after open truncated or partly wrote the file
WriteOutcomes == {"written", "open fails", "write fails"}

FileAfter(old, outcome) ==
    CASE outcome = "written"     -> "complete"
      [] outcome = "open fails"  -> old
      [] outcome = "write fails" -> "partial"

\* print_report: the JSON dump; an exception leaves main, the process exits 1
PrintReport ==
    /\ pc = "report"
    /\ \E outcome \in WriteOutcomes :
        /\ report_file' = FileAfter(report_file, outcome)
        /\ raised' = (outcome # "written")
        /\ exit_status' = IF outcome = "written" THEN exit_status ELSE 1
        /\ pc' = IF outcome = "written" THEN "script" ELSE "exited"
    /\ UNCHANGED <<ts_files, idx, unused_imports, duplicate_imports, stats,
                   total_unused, total_duplicates, script_file, returned, fileVars>>

\* generate_fix_script
GenerateFixScript ==
    /\ pc = "script"
    /\ IF unused_imports = <<>>
       THEN /\ pc' = "exit"
            /\ UNCHANGED <<script_file, raised, exit_status>>
       ELSE \E outcome \in WriteOutcomes :
            /\ script_file' = FileAfter(script_file, outcome)
            /\ raised' = (outcome # "written")
            /\ exit_status' = IF outcome = "written" THEN exit_status ELSE 1
            /\ pc' = IF outcome = "written" THEN "exit" ELSE "exited"
    /\ UNCHANGED <<ts_files, idx, unused_imports, duplicate_imports, stats,
                   total_unused, total_duplicates, report_file, returned, fileVars>>

ExitStatus_AnyFinding(st) ==
    IF st.total_unused_imports + st.total_duplicate_imports > 0 THEN 1 ELSE 0

\* the status main hands to sys.exit
ExitStatus(st) == IF st.total_unused_imports > 0 THEN 1 ELSE 0

Exit ==
    /\ pc = "exit"
    /\ exit_status' = ExitStatus(stats)
    /\ pc' = "exited"
    /\ UNCHANGED <<ts_files, idx, unused_imports, duplicate_imports, stats,
                   total_unused, total_duplicates, report_file, script_file, raised,
                   returned, fileVars>>

Next == CheckFile \/ FinishScan \/ PrintReport \/ GenerateFixScript \/ Exit
Spec == Init /\ [][Next]_vars

(***************************************************************************)
(* Properties.                                                             *)
(***************************************************************************)
Range(seq) == {seq[i] : i \in 1..Len(seq)}
Count(seq, x) == Cardinality({i \in 1..Len(seq) : seq[i] = x})

RECURSIVE SumLen(_, _)
SumLen(lists, i) == IF i > Len(lists) THEN 0 ELSE Len(lists[i]) + SumLen(lists, i + 1)

\* a non-empty run of word characters
IsIdentifier(x) == x # <<>> /\ \A i \in 1..Len(x) : IsWord(x[i])

\* the name a binding is looked up by: X for "* as X", the text itself otherwise
UsageKey(item) == IF StartsWith(item, StarAs) THEN SubSeq(item, 5, Len(item)) ELSE item

\* name occurs in t with no word character right before it or right after it
Standalone(name, t) ==
    \E i \in 1..Len(t) :
        /\ OccursAt(t, name, i)
        /\ ~IsWord(At(t, i - 1))
        /\ ~IsWord(At(t, i + Len(name)))

\* the binding texts the declarations ds[i..] of the given forms write for module,
\* in the order of the text
RECURSIVE Declared(_, _, _, _)
Declared(ds, i, module, forms) ==
    IF i > Len(ds) THEN <<>>
    ELSE (IF Decls[ds[i]].module = module /\ Decls[ds[i]].form \in forms
          THEN Decls[ds[i]].names ELSE <<>>)
         \o Declared(ds, i + 1, module, forms)

AllForms == {"named", "namespace", "default", "side"}
DeclaredModules == {Decls[decls[i]].module : i \in 1..Len(decls)}

\* the descriptions of all bindings of an import map, module by module
RECURSIVE Described(_, _)
Described(d, k) ==
    IF k > Len(d) THEN <<>>
    ELSE [i \in 1..Len(d[k].items) |-> Describe(d[k].items[i], d[k].module)]
         \o Described(d, k + 1)

\* a is b with some entries left out, the order kept
RECURSIVE IsSubseq(_, _)
IsSubseq(a, b) ==
    IF a = <<>> THEN TRUE
    ELSE IF b = <<>> THEN FALSE
    ELSE IF Head(a) = Head(b) THEN IsSubseq(Tail(a), Tail(b))
    ELSE IsSubseq(a, Tail(b))

Scanned == pc \in {"report", "script", "exit", "exited"}
UnusedKnown == fpc \in {"unused", "done"}

\* C1: duplicate counting law.  For every import map and every module of it, a
\* binding text other than the side-effect sentinel that occurs k >= 1 times in
\* the module's list is reported exactly k - 1 times as "<binding> from
\* '<module>'"; a binding listed once under each of two modules is not reported.
C1_DuplicateCountingLaw ==
    fpc = "mapdone" =>
        \A k \in 1..Len(imports) :
            \A item \in Range(imports[k].items) \ {SideEffect} :
                Count(duplicates, Describe(item, imports[k].module))
                    = Count(imports[k].items, item) - 1

C1_Witness ==
    /\ fpc = "mapdone"
    /\ Len(imports) = 2
    /\ Count(imports[1].items, <<"A">>) = 3
    /\ Count(imports[2].items, <<"A">>) = 1
    /\ Count(duplicates, Describe(<<"A">>, imports[1].module)) = 2
    /\ Len(duplicates) = 2

\* C2: the side-effect sentinel of a bare import is in neither the unused list
\* nor the duplicate list, however often the bare import is repeated, and a file
\* of side-effect imports only has no unused entry.
C2_SideEffectNeverReported ==
    /\ \A e \in Range(unused) \cup Range(duplicates) : ~StartsWith(e, SideEffect)
    /\ (/\ UnusedKnown
        /\ decls # <<>>
        /\ \A i \in 1..Len(decls) : Decls[decls[i]].form = "side"
        /\ body = <<>>) => unused = <<>>

C2_Witness ==
    /\ fpc = "done"
    /\ \E k \in 1..Len(imports) : Count(imports[k].items, SideEffect) = 2
    /\ unused = <<>>
    /\ duplicates = <<>>

\* C3: whole-word matching.  A binding that is an identifier (for "* as X" the
\* identifier X) is reported unused exactly when the usage-search text has no
\* occurrence of it with a non-word character or the end of the text on both
\* sides; an occurrence inside a longer identifier does not count.  Identifier
\* characters are the word characters of the regular expression.
C3_WholeWordMatching ==
    UnusedKnown =>
        \A k \in 1..Len(imports) :
            \A item \in Range(imports[k].items) \ {SideEffect} :
                IsIdentifier(UsageKey(item)) =>
                    (Describe(item, imports[k].module) \in Range(unused)
                        <=> ~Standalone(UsageKey(item), content_without_imports(content)))

\* A is reported although the searched text holds it inside the identifier AB,
\* and "* as X" is not reported because X stands alone
C3_Witness ==
    /\ fpc = "done"
    /\ Describe(<<"A">>, <<"m">>) \in Range(unused)
    /\ Find(content_without_imports(content), <<"A", "B">>) # 0
    /\ StarAs \o <<"X">> \in Range(Get(imports, <<"m">>))
    /\ Describe(StarAs \o <<"X">>, <<"m">>) \notin Range(unused)

\* C4: a binding whose name has no whole-word occurrence outside the import
\* declarations (that is, in the body) is reported unused, for every declaration
\* shape the extractor recognizes.
C4_OwnDeclarationIsNoUse ==
    UnusedKnown =>
        \A k \in 1..Len(imports) :
            \A item \in Range(imports[k].items) \ {SideEffect} :
                (IsIdentifier(UsageKey(item)) /\ ~Standalone(UsageKey(item), body))
                    => Describe(item, imports[k].module) \in Range(unused)

\* C5 as stated: a module's list holds its bindings in the order the declarations
\* appear in the text, across all declaration forms.
C5_TextOrderAcrossForms ==
    fpc \in {"extracted", "unused", "done"} =>
        \A module \in DeclaredModules :
            Get(imports, module) = Declared(decls, 1, module, AllForms)

\* C5 amended: a module's list holds its named bindings, then its namespaced,
\* then its default bindings, then its side-effect sentinels, each group in the
\* order of the text; the unused and the duplicate list keep the order of the
\* import map (module by module, binding by binding).
C5_OrderByFormThenText ==
    /\ fpc \in {"extracted", "unused", "done"} =>
        /\ \A module \in DeclaredModules :
            Get(imports, module) =
                Declared(decls, 1, module, {"named"})
                    \o Declared(decls, 1, module, {"namespace"})
                    \o Declared(decls, 1, module, {"default"})
                    \o Declared(decls, 1, module, {"side"})
        /\ \A k \in 1..Len(imports) : imports[k].module \in DeclaredModules
    /\ UnusedKnown => IsSubseq(unused, Described(imports, 1))
    /\ fpc = "done" => IsSubseq(duplicates, Described(imports, 1))

\* module m declared in an order of forms other than named, namespaced, default,
\* side-effect, with at least two unused entries to order
C5_Witness ==
    /\ fpc = "done"
    /\ Get(imports, <<"m">>) # Declared(decls, 1, <<"m">>, AllForms)
    /\ Len(unused) >= 2

\* C6: after scan_directory the totals are the sums of the recorded list lengths
\* and the two file counters count the files with a non-empty list.
C6_AggregateStatistics ==
    Scanned =>
        /\ stats.total_unused_imports =
            SumLen([i \in 1..Len(unused_imports) |-> unused_imports[i].unused], 1)
        /\ stats.total_duplicate_imports =
            SumLen([i \in 1..Len(duplicate_imports) |-> duplicate_imports[i].duplicates], 1)
        /\ stats.files_with_unused =
            Cardinality({i \in 1..Len(returned) : returned[i].unused # <<>>})
        /\ stats.files_with_duplicates =
            Cardinality({i \in 1..Len(returned) : returned[i].duplicates # <<>>})

C6_Witness ==
    /\ pc = "report"
    /\ Len(ts_files) = 2
    /\ stats.total_unused_imports = 3
    /\ stats.files_with_unused = 2
    /\ stats.total_duplicate_imports = 1
    /\ stats.files_with_duplicates = 1

C8_CountsOnlyFilesRead ==
    Scanned =>
        /\ Len(returned) = Len(ts_files)
        /\ \A i \in 1..Len(ts_files) :
            ~ts_files[i].readable =>
                /\ \A j \in 1..Len(unused_imports) : unused_imports[j].file # i
                /\ \A j \in 1..Len(duplicate_imports) : duplicate_imports[j].file # i
        /\ stats.total_files =
            Cardinality({i \in 1..Len(ts_files) : ts_files[i].readable})

\* C9: when writing an artifact fails the process does not exit with status 0
\* and no report is left behind: not a partial one, and not a report without
\* the rest of the run's artifacts.
C9_FailedWriteLeavesNoReport ==
    (pc = "exited" /\ raised) => (exit_status # 0 /\ report_file = "absent")

\* C10: every binding text stored for a named import is non-empty, so no entry
\* of the unused or duplicate list describes an empty binding.
C10_BindingsNonEmpty ==
    /\ \A k \in 1..Len(imports) : \A item \in Range(imports[k].items) : item # <<>>
    /\ \A e \in Range(unused) \cup Range(duplicates) : ~StartsWith(e, <<" ", "from">>)

=============================================================================
